---- MODULE Spec2Model ----
(***************************************************************************)
(* The relayer gateway (index.js, kept here as src/unnamed/part_000): the  *)
(* start-up sequence, POST /initialize-fee-vault and POST /tip, with the   *)
(* chain client (Anchor / web3.js / bn.js) as the environment.             *)
(*                                                                         *)
(* A handler is an async function: it runs without interruption up to its  *)
(* single `await ... .rpc()`, and again from the settlement of that        *)
(* promise to its end.  Each of those two segments is one action; the      *)
(* settlement of the promise is the environment's action in between.       *)
(***************************************************************************)
EXTENDS Integers, Sequences, FiniteSets, TLC

VARIABLES
    pc,         \* position of the module's top-level code, or "serving" / "exited"
    env,        \* process.env and the idl.json file, as found at start-up
    idl,        \* `let idl`
    feeWallet,  \* `let feeWallet` (the public key of the keypair)
    programId,  \* `let programId`
    handlers,   \* the request handlers suspended at their await, by slot
    chain,      \* the external network: fee vault account, accepted transactions
    nreq,       \* number of requests received so far
    initOk,     \* number of success responses sent by POST /initialize-fee-vault
    done        \* the exchange completed last, until the client has read its response

vars == <<pc, env, idl, feeWallet, programId, handlers, chain, nreq, initOk, done>>

(***************************************************************************)
(* Bounds of the model.                                                    *)
(***************************************************************************)
MaxInFlight == 2    \* handlers suspended at once (concurrent specification)
MaxRequests == 3    \* requests received in one run of the serial client
MaxBurst == 2       \* requests received in one run of the concurrent clients

Slots == 1..MaxInFlight
SerialSlots == {1}

(***************************************************************************)
(* JSON / JavaScript values.  A number is sign, integer part in base 2^26  *)
(* digits (hi*2^52 + mid*2^26 + lo) and an optional fractional half, so    *)
(* that 2^53 and 0.5 are both representable.                               *)
(***************************************************************************)
Num(neg, hi, mid, lo, half) == <<neg, hi, mid, lo, half>>
Neg(x) == x[1]
Hi(x) == x[2]
Mid(x) == x[3]
Lo(x) == x[4]
Half(x) == x[5]
Zero == Num(FALSE, 0, 0, 0, FALSE)
IsZero(x) == Hi(x) = 0 /\ Mid(x) = 0 /\ Lo(x) = 0 /\ ~Half(x)

\* a value is <<typeof, the string it is, the number it is>>
JUndef == <<"undefined", "", Zero>>
JNull == <<"null", "", Zero>>
JStr(str) == <<"string", str, Zero>>
JNum(x) == <<"number", "", x>>
JInt(i) == JNum(Num(i < 0, 0, 0, IF i < 0 THEN -i ELSE i, FALSE))
TypeOf(v) == v[1]
StrOf(v) == v[2]
NumOf(v) == v[3]

\* `!v` of JavaScript
Falsy(v) ==
    \/ TypeOf(v) \in {"undefined", "null"}
    \/ TypeOf(v) = "string" /\ StrOf(v) = ""
    \/ TypeOf(v) = "number" /\ IsZero(NumOf(v))

\* `x <= 0` on a number
LessOrEqualZero(x) == Neg(x) \/ IsZero(x)

(***************************************************************************)
(* Start-up: the top-level code of the module.                             *)
(***************************************************************************)
SecretValues == {"absent", "", "not json", "[1,2,3]", "[keypair bytes]"}
ProgramIdValues == {"absent", "", "not-base58!", "ProgramId11111111111111111111111"}
IdlFiles == {"missing", "not json", "{}", "{idl}"}

FeeWalletKey == "FeeWalletFeeWalletFeeWalletFeeWa"
SystemProgramId == "11111111111111111111111111111111"

\* Keypair.fromSecretKey(Uint8Array.from(JSON.parse(secret))) throws
SecretThrows(secret) == secret # "[keypair bytes]"
\* new PublicKey(process.env.ANCHOR_PROGRAM_ID) throws
ProgramIdThrows(id) == id # "ProgramId11111111111111111111111"
\* readFileSync / JSON.parse of idl.json throws
IdlLoadThrows(file) == file \in {"missing", "not json"}

Exit == pc' = "exited"

CheckSecretEnv ==
    /\ pc = "checkSecret"
    /\ IF env.FEE_WALLET_SECRET \in {"absent", ""}
         THEN Exit
         ELSE pc' = "checkProgramId"
    /\ UNCHANGED <<env, idl, feeWallet, programId, handlers, chain, nreq, initOk, done>>

CheckProgramIdEnv ==
    /\ pc = "checkProgramId"
    /\ IF env.ANCHOR_PROGRAM_ID \in {"absent", ""}
         THEN Exit
         ELSE pc' = "loadIdl"
    /\ UNCHANGED <<env, idl, feeWallet, programId, handlers, chain, nreq, initOk, done>>

\* mutant: a failure to load idl.json is logged and start-up goes on
LoadIdl_NoExit ==
    /\ pc = "loadIdl"
    /\ pc' = "initSolana"
    /\ idl' = IF IdlLoadThrows(env.idlFile) THEN idl ELSE env.idlFile
    /\ UNCHANGED <<env, feeWallet, programId, handlers, chain, nreq, initOk, done>>

LoadIdl ==
    /\ pc = "loadIdl"
    /\ IF IdlLoadThrows(env.idlFile)
         THEN Exit /\ UNCHANGED idl
         ELSE pc' = "initSolana" /\ idl' = env.idlFile
    /\ UNCHANGED <<env, feeWallet, programId, handlers, chain, nreq, initOk, done>>

InitSolana ==
    /\ pc = "initSolana"
    /\ IF SecretThrows(env.FEE_WALLET_SECRET)
         THEN Exit /\ UNCHANGED <<feeWallet, programId>>
         ELSE IF ProgramIdThrows(env.ANCHOR_PROGRAM_ID)
                THEN Exit /\ feeWallet' = FeeWalletKey /\ UNCHANGED programId
                ELSE /\ pc' = "listen"
                     /\ feeWallet' = FeeWalletKey
                     /\ programId' = env.ANCHOR_PROGRAM_ID
    /\ UNCHANGED <<env, idl, handlers, chain, nreq, initOk, done>>

Listen ==
    /\ pc = "listen"
    /\ pc' = "serving"
    /\ UNCHANGED <<env, idl, feeWallet, programId, handlers, chain, nreq, initOk, done>>

Startup == CheckSecretEnv \/ CheckProgramIdEnv \/ LoadIdl \/ InitSolana \/ Listen

(***************************************************************************)
(* The chain client library, as the handlers use it.                       *)
(***************************************************************************)
ViewerWallet == "Viewer1111111111111111111111111111111111111"
CreatorWallet == "Creator111111111111111111111111111111111111"
ViewerKey == "ViewerKeyViewerKeyViewerKeyViewe"
CreatorKey == "CreatorKeyCreatorKeyCreatorKeyCr"

\* bs58.decode: the bytes of a base-58 string, "" where the string is no
\* base-58 encoding (the README's placeholder addresses contain 'l')
bs58decode(str) ==
    CASE str = ViewerWallet -> ViewerKey
      [] str = CreatorWallet -> CreatorKey
      [] OTHER -> ""

\* new PublicKey(v) for a string v throws unless v decodes to 32 bytes
PublicKeyThrows(v) == TypeOf(v) # "string" \/ Len(bs58decode(StrOf(v))) # 32
PublicKey(v) == bs58decode(StrOf(v))

\* Buffer.from(v) throws a TypeError for a number, undefined or null
BufferFromThrows(v) == TypeOf(v) # "string"
BufferFrom(v) == StrOf(v)

RECURSIVE Concat(_)
Concat(seeds) == IF seeds = <<>> THEN "" ELSE Head(seeds) \o Concat(Tail(seeds))

\* PublicKey.findProgramAddressSync(seeds, programId): throws when a seed is
\* longer than 32 bytes; otherwise the hash of the concatenated seeds and the
\* program id (the hash is kept symbolic: its preimage)
FindProgramAddressThrows(seeds) == \E i \in 1..Len(seeds) : Len(seeds[i]) > 32
findProgramAddressSync(seeds, pid) == [seeds |-> Concat(seeds), program |-> pid]
NoPda == [seeds |-> "", program |-> ""]

\* new BN(number) of bn.js (_initNumber): 26-bit words taken with `&`, which
\* drops the fraction; assert(number < 2^53) fails from 2^53 on
BNThrows(x) == Hi(x) >= 2
BN(x) ==
    [negative |-> Neg(x),
     words |-> IF Hi(x) = 0 /\ Mid(x) = 0 THEN <<Lo(x)>>
               ELSE IF Hi(x) = 0 THEN <<Lo(x), Mid(x)>>
               ELSE <<Lo(x), Mid(x), 1>>]
NoBN == [negative |-> FALSE, words |-> <<>>]

\* getProgram(): new Program(idl, provider) throws when the parsed JSON is
\* not a program interface; the provider's wallet is the fee wallet
GetProgramThrows == idl # "{idl}"
getProgram == [wallet |-> feeWallet]

(***************************************************************************)
(* Transactions, client errors and responses.                              *)
(***************************************************************************)
NoAccounts ==
    [viewerProfile |-> NoPda, creatorProfile |-> NoPda, feeVault |-> NoPda,
     feePayer |-> "", viewer |-> "", creator |-> "", authority |-> "",
     systemProgram |-> ""]

NoTx == [ix |-> "none"]

\* .rpc(): the provider's wallet is the transaction's fee payer; the
\* transaction is signed by the provider's wallet and by .signers([...])
Rpc(program, ix, a, b, bn, accounts, signers) ==
    [ix |-> ix, viewerUserId |-> a, creatorUserId |-> b, amount |-> bn,
     accounts |-> accounts, feePayer |-> program.wallet,
     signatures |-> {program.wallet} \cup signers]

Err(message, hasLogs, logs, code) ==
    [ok |-> FALSE, txSig |-> 0, message |-> message, hasLogs |-> hasLogs,
     logs |-> logs, code |-> code]
Ok(sig) ==
    [ok |-> TRUE, txSig |-> sig, message |-> "", hasLogs |-> FALSE,
     logs |-> <<>>, code |-> JUndef]
Pending == Err("pending", FALSE, <<>>, JUndef)

ProgramError == Err("AnchorError: InsufficientFunds", TRUE, <<"Program log: AnchorError">>, JInt(6000))
ZeroCodeError == Err("custom program error: 0x0", TRUE, <<"Program log: failed">>, JInt(0))
NetworkError == Err("fetch failed", FALSE, <<>>, JStr("ECONNREFUSED"))
TimeoutError == Err("Transaction was not confirmed", FALSE, <<>>, JUndef)
AlreadyInUse == Err("Allocate: account already in use", TRUE, <<"Allocate: account already in use">>, JUndef)

\* what a thrown TypeError / Error of the library looks like to the catch
Thrown(message) == Err(message, FALSE, <<>>, JUndef)

NoResp ==
    [status |-> 0, success |-> FALSE, error |-> "", required |-> <<>>,
     txSig |-> 0, message |-> "", details |-> <<>>, code |-> JUndef,
     feeVault |-> NoPda]

(***************************************************************************)
(* Requests, handlers and exchanges.                                       *)
(***************************************************************************)
Body(vu, cu, vw, cw, a) ==
    [viewerUserId |-> vu, creatorUserId |-> cu, viewerWallet |-> vw,
     creatorWallet |-> cw, amount |-> a]
NoBody == Body(JUndef, JUndef, JUndef, JUndef, JUndef)

\* a handler suspended at `await ... .rpc()`: the transaction it submitted
\* and, once the promise is settled, what the client resolved or threw
Idle == [kind |-> "idle"]
Awaiting(kind, body, tx) ==
    [kind |-> kind, body |-> body, tx |-> tx, settled |-> FALSE,
     result |-> Pending, vaultAtIssue |-> chain.vault]

\* a completed exchange: the request, the responses sent for it, and the
\* submissions to the chain client made for it
Exchange(kind, body, resps, subs, tx, result, vaultAtIssue) ==
    [kind |-> kind, body |-> body, resp |-> IF resps = <<>> THEN NoResp ELSE resps[1],
     responses |-> Len(resps), subs |-> subs, tx |-> tx, result |-> result,
     vaultAtIssue |-> vaultAtIssue]
NoExchange == [kind |-> "none"]

Required == <<"viewerUserId", "creatorUserId", "viewerWallet", "creatorWallet", "amount">>

(***************************************************************************)
(* POST /tip                                                               *)
(***************************************************************************)
\* mutant: the `amount === undefined` test is left out
MissingParams_NoAmountTest(body) ==
    \/ Falsy(body.viewerUserId)
    \/ Falsy(body.creatorUserId)
    \/ Falsy(body.viewerWallet)
    \/ Falsy(body.creatorWallet)

\* if (!viewerUserId || !creatorUserId || !viewerWallet || !creatorWallet
\*     || amount === undefined)
MissingParams(body) ==
    \/ Falsy(body.viewerUserId)
    \/ Falsy(body.creatorUserId)
    \/ Falsy(body.viewerWallet)
    \/ Falsy(body.creatorWallet)
    \/ TypeOf(body.amount) = "undefined"

\* mutant: `amount < 0` for `amount <= 0`
InvalidAmount_Strict(amount) == TypeOf(amount) # "number" \/ Neg(NumOf(amount))

\* if (typeof amount !== 'number' || amount <= 0)
InvalidAmount(amount) == TypeOf(amount) # "number" \/ LessOrEqualZero(NumOf(amount))

MissingResponse ==
    [NoResp EXCEPT !.status = 400, !.error = "Missing required parameters",
                   !.required = Required]
InvalidAmountResponse ==
    [NoResp EXCEPT !.status = 400,
                   !.error = "Invalid amount - must be a positive number"]
InvalidWalletResponse ==
    [NoResp EXCEPT !.status = 400, !.error = "Invalid wallet address format"]
TipSuccessResponse(txSig) ==
    [NoResp EXCEPT !.status = 200, !.success = TRUE, !.txSig = txSig,
                   !.message = "Tip sent and fee reimbursed"]
\* error: err.message, details: err.logs || [], code: err.code || 'UNKNOWN_ERROR'
TipErrorResponse(err) ==
    [NoResp EXCEPT !.status = 500, !.error = err.message,
                   !.details = IF err.hasLogs THEN err.logs ELSE <<>>,
                   !.code = IF Falsy(err.code) THEN JStr("UNKNOWN_ERROR") ELSE err.code]

ViewerSeeds(body) ==
    <<"profile", PublicKey(body.viewerWallet), BufferFrom(body.viewerUserId)>>
CreatorSeeds(body) ==
    <<"profile", PublicKey(body.creatorWallet), BufferFrom(body.creatorUserId)>>
\* mutant: the tip handler spells the fee vault's seed tag differently
TipFeeVaultSeeds_OtherTag == <<"fee-vault">>

TipFeeVaultSeeds == <<"fee_vault">>

TipSigners == {feeWallet}

\* program.methods.tipCreator(...).accounts({...}).signers([feeWallet]).rpc()
TipTx(body) ==
    LET program == getProgram
        viewerPubkey == PublicKey(body.viewerWallet)
        creatorPubkey == PublicKey(body.creatorWallet)
        viewerPda == findProgramAddressSync(ViewerSeeds(body), programId)
        creatorPda == findProgramAddressSync(CreatorSeeds(body), programId)
        feeVaultPda == findProgramAddressSync(TipFeeVaultSeeds, programId)
    IN  Rpc(program, "tipCreator", StrOf(body.viewerUserId), StrOf(body.creatorUserId),
            BN(NumOf(body.amount)),
            [NoAccounts EXCEPT !.viewerProfile = viewerPda,
                               !.creatorProfile = creatorPda,
                               !.feeVault = feeVaultPda,
                               !.feePayer = feeWallet,
                               !.viewer = viewerPubkey,
                               !.creator = creatorPubkey,
                               !.systemProgram = SystemProgramId],
            TipSigners)

Respond(resp) == [await |-> FALSE, resps |-> <<resp>>, tx |-> NoTx]
\* mutant: requests are deduplicated: while a handler awaits the submission of
\* a transaction, a request for the same transaction is answered without one
Submit_Dedup(tx) ==
    IF \E s \in DOMAIN handlers : handlers[s].kind # "idle" /\ handlers[s].tx = tx
        THEN [await |-> FALSE,
              resps |-> <<[NoResp EXCEPT !.status = 409, !.error = "Duplicate request"]>>,
              tx |-> NoTx]
    ELSE [await |-> TRUE, resps |-> <<>>, tx |-> tx]

Submit(tx) == [await |-> TRUE, resps |-> <<>>, tx |-> tx]

\* the handler from its first line to its await, or to the response it sends
\* before reaching it
TipSync(body) ==
    IF MissingParams(body) THEN Respond(MissingResponse)
    ELSE IF InvalidAmount(body.amount) THEN Respond(InvalidAmountResponse)
    ELSE IF GetProgramThrows
        THEN Respond(TipErrorResponse(Thrown("Failed to create program")))
    ELSE IF PublicKeyThrows(body.viewerWallet) \/ PublicKeyThrows(body.creatorWallet)
        THEN Respond(InvalidWalletResponse)
    ELSE IF BufferFromThrows(body.viewerUserId)
        THEN Respond(TipErrorResponse(Thrown("The first argument must be of type string")))
    ELSE IF FindProgramAddressThrows(ViewerSeeds(body))
        THEN Respond(TipErrorResponse(Thrown("Max seed length exceeded")))
    ELSE IF BufferFromThrows(body.creatorUserId)
        THEN Respond(TipErrorResponse(Thrown("The first argument must be of type string")))
    ELSE IF FindProgramAddressThrows(CreatorSeeds(body))
        THEN Respond(TipErrorResponse(Thrown("Max seed length exceeded")))
    ELSE IF BNThrows(NumOf(body.amount))
        THEN Respond(TipErrorResponse(Thrown("Assertion failed")))
    ELSE Submit(TipTx(body))

TipReceive(s, body) ==
    /\ pc = "serving"
    /\ handlers[s] = Idle
    /\ nreq' = nreq + 1
    /\ LET r == TipSync(body)
       IN  IF r.await
             THEN /\ handlers' = [handlers EXCEPT ![s] = Awaiting("tip", body, r.tx)]
                  /\ UNCHANGED done
             ELSE /\ done' = Exchange("tip", body, r.resps, 0, NoTx, Pending, chain.vault)
                  /\ UNCHANGED handlers
    /\ UNCHANGED <<pc, env, idl, feeWallet, programId, chain, initOk>>

\* mutant: the catch branch is lost and every settlement is answered as a success
TipAfterAwait_AlwaysSuccess(result) == <<TipSuccessResponse(result.txSig)>>

\* the rest of the handler, from the settlement of the awaited promise
TipAfterAwait(result) ==
    IF result.ok THEN <<TipSuccessResponse(result.txSig)>>
    ELSE <<TipErrorResponse(result)>>

TipResume(s) ==
    /\ handlers[s].kind = "tip"
    /\ handlers[s].settled
    /\ done' = Exchange("tip", handlers[s].body, TipAfterAwait(handlers[s].result),
                        1, handlers[s].tx, handlers[s].result,
                        handlers[s].vaultAtIssue)
    /\ handlers' = [handlers EXCEPT ![s] = Idle]
    /\ UNCHANGED <<pc, env, idl, feeWallet, programId, chain, nreq, initOk>>

(***************************************************************************)
(* POST /initialize-fee-vault                                              *)
(***************************************************************************)
InitFeeVaultSeeds == <<"fee_vault">>

InitTx ==
    LET program == getProgram
        feeVaultPda == findProgramAddressSync(InitFeeVaultSeeds, programId)
    IN  Rpc(program, "initializeFeeVault", "", "", NoBN,
            [NoAccounts EXCEPT !.feeVault = feeVaultPda,
                               !.authority = feeWallet,
                               !.systemProgram = SystemProgramId],
            {feeWallet})

InitSuccessResponse(txSig, feeVaultPda) ==
    [NoResp EXCEPT !.status = 200, !.success = TRUE, !.txSig = txSig,
                   !.feeVault = feeVaultPda]
\* error: err.message, details: err.logs || []
InitErrorResponse(err) ==
    [NoResp EXCEPT !.status = 500, !.error = err.message,
                   !.details = IF err.hasLogs THEN err.logs ELSE <<>>]

InitSync ==
    IF GetProgramThrows
        THEN Respond(InitErrorResponse(Thrown("Failed to create program")))
    ELSE Submit(InitTx)

InitReceive(s) ==
    /\ pc = "serving"
    /\ handlers[s] = Idle
    /\ nreq' = nreq + 1
    /\ LET r == InitSync
       IN  IF r.await
             THEN /\ handlers' = [handlers EXCEPT ![s] = Awaiting("init", NoBody, r.tx)]
                  /\ UNCHANGED done
             ELSE /\ done' = Exchange("init", NoBody, r.resps, 0, NoTx, Pending, chain.vault)
                  /\ UNCHANGED handlers
    /\ UNCHANGED <<pc, env, idl, feeWallet, programId, chain, initOk>>

\* mutant: a rejected initialization is answered as a success
InitAfterAwait_AlwaysSuccess(result, tx) ==
    <<InitSuccessResponse(result.txSig, tx.accounts.feeVault)>>

InitAfterAwait(result, tx) ==
    IF result.ok THEN <<InitSuccessResponse(result.txSig, tx.accounts.feeVault)>>
    ELSE <<InitErrorResponse(result)>>

InitResume(s) ==
    /\ handlers[s].kind = "init"
    /\ handlers[s].settled
    /\ LET resps == InitAfterAwait(handlers[s].result, handlers[s].tx)
       IN  /\ done' = Exchange("init", NoBody, resps, 1, handlers[s].tx,
                               handlers[s].result, handlers[s].vaultAtIssue)
           /\ initOk' = initOk + Cardinality({i \in 1..Len(resps) : resps[i].success})
    /\ handlers' = [handlers EXCEPT ![s] = Idle]
    /\ UNCHANGED <<pc, env, idl, feeWallet, programId, chain, nreq>>

(***************************************************************************)
(* The environment: the network settles a submitted transaction, and the   *)
(* client reads the response.                                              *)
(***************************************************************************)
\* what .rpc() resolves to or throws for a tip, the ledger holding
\* chain.count transactions
TipOutcomes ==
    {Ok(chain.count + 1), ProgramError, ZeroCodeError, TimeoutError}

\* the chain rejects the initialization of a fee vault that exists
InitOutcomes ==
    IF chain.vault THEN {AlreadyInUse, NetworkError}
    ELSE {Ok(chain.count + 1), NetworkError, TimeoutError}

\* the transaction was executed (the client may still have timed out)
Executed(o) == o.ok \/ o = TimeoutError

SettleTip(s, o) ==
    /\ handlers[s].kind = "tip"
    /\ ~handlers[s].settled
    /\ o \in TipOutcomes
    /\ handlers' = [handlers EXCEPT ![s].settled = TRUE, ![s].result = o]
    /\ chain' = IF Executed(o) THEN [chain EXCEPT !.count = @ + 1] ELSE chain
    /\ UNCHANGED <<pc, env, idl, feeWallet, programId, nreq, initOk, done>>

SettleInit(s, o) ==
    /\ handlers[s].kind = "init"
    /\ ~handlers[s].settled
    /\ o \in InitOutcomes
    /\ handlers' = [handlers EXCEPT ![s].settled = TRUE, ![s].result = o]
    /\ chain' = IF Executed(o)
                  THEN [chain EXCEPT !.count = @ + 1, !.vault = TRUE, !.inits = @ + 1]
                  ELSE chain
    /\ UNCHANGED <<pc, env, idl, feeWallet, programId, nreq, initOk, done>>

ReadResponse ==
    /\ done # NoExchange
    /\ done' = NoExchange
    /\ UNCHANGED <<pc, env, idl, feeWallet, programId, handlers, chain, nreq, initOk>>

(***************************************************************************)
(* Request bodies.                                                         *)
(***************************************************************************)
LongUserId == "user-id-of-thirty-three-bytes-xxx"

UserIdValues == {JUndef, JStr(""), JStr("v1"), JInt(7), JStr(LongUserId)}
WalletValues ==
    {JUndef, JStr(""), JStr("ViewerWalletAddress"), JStr(ViewerWallet),
     JStr(CreatorWallet)}
AmountValues ==
    {JUndef, JNull, JStr("10000"), JInt(0), JInt(-5),
     JNum(Num(FALSE, 0, 0, 0, TRUE)),           \* 0.5
     JNum(Num(FALSE, 0, 0, 1, TRUE)),           \* 1.5
     JInt(10000),
     JNum(Num(FALSE, 0, 14, 60475904, FALSE)),  \* 1000000000
     JNum(Num(FALSE, 2, 0, 0, FALSE))}          \* 2^53

TipBodies ==
    {Body(vu, cu, vw, cw, a) :
        vu \in UserIdValues, cu \in UserIdValues,
        vw \in WalletValues, cw \in WalletValues, a \in AmountValues}

\* the end-to-end example request and the tip in the other direction
ExampleBody ==
    Body(JStr("v1"), JStr("c1"), JStr(ViewerWallet), JStr(CreatorWallet), JInt(10000))
TipBackBody ==
    Body(JStr("c1"), JStr("v1"), JStr(CreatorWallet), JStr(ViewerWallet), JInt(10000))
ConcurrentBodies == {ExampleBody, TipBackBody}

(***************************************************************************)
(* Specifications.                                                         *)
(***************************************************************************)
Init ==
    /\ pc = "checkSecret"
    /\ env \in [FEE_WALLET_SECRET : SecretValues,
                ANCHOR_PROGRAM_ID : ProgramIdValues,
                idlFile : IdlFiles]
    /\ idl = "unset"
    /\ feeWallet = ""
    /\ programId = ""
    /\ handlers = [s \in Slots |-> Idle]
    /\ \E v \in BOOLEAN :
         chain = [vault |-> v, inits |-> IF v THEN 1 ELSE 0, count |-> 0]
    /\ nreq = 0
    /\ initOk = 0
    /\ done = NoExchange

\* one client, which reads each response before it sends the next request;
\* its tip requests range over TipBodies
ClientReady == done = NoExchange /\ nreq < MaxRequests

Next ==
    \/ Startup
    \/ \E s \in SerialSlots :
         \/ ClientReady /\ \E body \in TipBodies : TipReceive(s, body)
         \/ ClientReady /\ InitReceive(s)
         \/ \E o \in TipOutcomes : SettleTip(s, o)
         \/ \E o \in InitOutcomes : SettleInit(s, o)
         \/ TipResume(s)
         \/ InitResume(s)
    \/ ReadResponse

Spec == Init /\ [][Next]_vars

\* a request is taken by the first idle slot (slots are interchangeable)
FirstIdle(s) == nreq < MaxBurst /\ \A t \in Slots : t < s => handlers[t] # Idle

\* up to MaxInFlight requests in flight at once, in any interleaving
NextConcurrent ==
    \/ Startup
    \/ \E s \in Slots :
         \/ FirstIdle(s) /\ \E body \in ConcurrentBodies : TipReceive(s, body)
         \/ FirstIdle(s) /\ InitReceive(s)
         \/ \E o \in TipOutcomes : SettleTip(s, o)
         \/ \E o \in InitOutcomes : SettleInit(s, o)
         \/ TipResume(s)
         \/ InitResume(s)
    \/ ReadResponse

SpecConcurrent == Init /\ [][NextConcurrent]_vars

(***************************************************************************)
(* What the claims speak of, stated on the requests themselves.            *)
(***************************************************************************)
AbsentOrEmpty(v) == TypeOf(v) = "undefined" \/ (TypeOf(v) = "string" /\ StrOf(v) = "")
FieldMissing(body) ==
    \/ AbsentOrEmpty(body.viewerUserId)
    \/ AbsentOrEmpty(body.creatorUserId)
    \/ AbsentOrEmpty(body.viewerWallet)
    \/ AbsentOrEmpty(body.creatorWallet)
    \/ TypeOf(body.amount) = "undefined"
PositiveNumber(a) == TypeOf(a) = "number" /\ ~Neg(NumOf(a)) /\ ~IsZero(NumOf(a))
BadAmount(a) == TypeOf(a) # "undefined" /\ ~PositiveNumber(a)
WellFormedWallet(v) == TypeOf(v) = "string" /\ StrOf(v) \in {ViewerWallet, CreatorWallet}
WellFormedBody(body) ==
    /\ ~FieldMissing(body)
    /\ PositiveNumber(body.amount)
    /\ WellFormedWallet(body.viewerWallet)
    /\ WellFormedWallet(body.creatorWallet)

Busy(kind) == {s \in Slots : handlers[s].kind = kind}
\* the tip requests whose transaction has been submitted, with the transaction
SubmittedTips ==
    {[body |-> handlers[s].body, tx |-> handlers[s].tx] : s \in Busy("tip")}
    \cup (IF done.kind = "tip" /\ done.subs > 0
            THEN {[body |-> done.body, tx |-> done.tx]} ELSE {})

(***************************************************************************)
(* C1: a POST /tip request in which one of viewerUserId, creatorUserId,    *)
(* viewerWallet, creatorWallet or amount is absent (or, for the four       *)
(* string fields, empty) is answered 400 with the list of required fields, *)
(* and no transaction is submitted for it.                                 *)
(***************************************************************************)
C1_MissingFieldRejected ==
    /\ \A t \in SubmittedTips : ~FieldMissing(t.body)
    /\ done.kind = "tip" /\ FieldMissing(done.body) =>
         /\ done.resp.status = 400
         /\ done.resp.required = Required
         /\ done.responses = 1
         /\ done.subs = 0

C1_Witness ==
    /\ done.kind = "tip"
    /\ TypeOf(done.body.amount) = "undefined"
    /\ ~AbsentOrEmpty(done.body.viewerUserId)
    /\ ~AbsentOrEmpty(done.body.creatorUserId)
    /\ WellFormedWallet(done.body.viewerWallet)
    /\ WellFormedWallet(done.body.creatorWallet)
    /\ done.resp.status = 400

(***************************************************************************)
(* C2: a POST /tip request whose amount is present but is not a number, or *)
(* is a number <= 0, is answered 400, and no transaction is submitted.     *)
(***************************************************************************)
C2_BadAmountRejected ==
    /\ \A t \in SubmittedTips : ~BadAmount(t.body.amount)
    /\ done.kind = "tip" /\ BadAmount(done.body.amount) =>
         /\ done.resp.status = 400
         /\ done.responses = 1
         /\ done.subs = 0

C2_Witness ==
    /\ done.kind = "tip"
    /\ ~FieldMissing(done.body)
    /\ done.body.amount = JInt(0)
    /\ done.resp = InvalidAmountResponse

(***************************************************************************)
(* C3: a POST /tip request with all five fields and a positive numeric     *)
(* amount, one of whose wallets is not a well-formed address, is answered  *)
(* 400 before any submission; nothing the handler does before the wallet   *)
(* check turns the outcome into anything else.                             *)
(***************************************************************************)
MalformedWalletCase(body) ==
    /\ ~FieldMissing(body)
    /\ PositiveNumber(body.amount)
    /\ ~(WellFormedWallet(body.viewerWallet) /\ WellFormedWallet(body.creatorWallet))

C3_MalformedWallet400 ==
    /\ \A t \in SubmittedTips : ~MalformedWalletCase(t.body)
    /\ done.kind = "tip" /\ MalformedWalletCase(done.body) =>
         /\ done.resp.status = 400
         /\ done.subs = 0

(***************************************************************************)
(* C4: for a POST /tip request that passes validation the handler makes    *)
(* exactly one submission and sends exactly one response: a success with   *)
(* the signature iff the submission succeeded, otherwise a 500 with the    *)
(* client's message, its log lines, and an error code when and only when   *)
(* the client supplied one.                                                *)
(***************************************************************************)
ClientLogs(result) == IF result.hasLogs THEN result.logs ELSE <<>>

\* what C4 says of a completed exchange
C4Statement ==
    /\ done.subs = 1
    /\ done.responses = 1
    /\ (done.resp.status = 200 <=> done.result.ok)
    /\ done.result.ok => done.resp.success /\ done.resp.txSig = done.result.txSig
    /\ ~done.result.ok =>
         /\ done.resp.status = 500
         /\ done.resp.error = done.result.message
         /\ done.resp.details = ClientLogs(done.result)
         /\ done.resp.code = done.result.code

\* C4 in full.  It fails already on the requests that pass validation and are
\* answered 500 before any submission (see C3 and C10).
C4_OneSubmissionOneResponse ==
    done.kind = "tip" /\ WellFormedBody(done.body) => C4Statement

BNIs(bn, x) ==
    /\ ~Half(x)
    /\ bn.negative = Neg(x)
    /\ Len(bn.words) >= 1 /\ bn.words[1] = Lo(x)
    /\ (IF Len(bn.words) >= 2 THEN bn.words[2] ELSE 0) = Mid(x)
    /\ (IF Len(bn.words) >= 3 THEN bn.words[3] ELSE 0) = Hi(x)

FeeWalletPaysAndSigns(tx) ==
    /\ tx.feePayer = FeeWalletKey
    /\ tx.accounts.feePayer = FeeWalletKey
    /\ tx.signatures = {FeeWalletKey}
    /\ tx.accounts.viewer \notin tx.signatures
    /\ tx.accounts.creator \notin tx.signatures

C5_TipTransactionAsRequested ==
    \A t \in SubmittedTips :
        /\ t.tx.ix = "tipCreator"
        /\ t.body.viewerUserId = JStr(t.tx.viewerUserId)
        /\ t.body.creatorUserId = JStr(t.tx.creatorUserId)
        /\ BNIs(t.tx.amount, NumOf(t.body.amount))
        /\ FeeWalletPaysAndSigns(t.tx)

\* the part of C5 about payer and signatures alone
C5_SignedByFeeWalletOnly == \A t \in SubmittedTips : FeeWalletPaysAndSigns(t.tx)

(***************************************************************************)
(* C6: the chain rejecting the initialization of a fee vault that exists,  *)
(* over any interleaving of POST /initialize-fee-vault requests the vault  *)
(* is initialized at most once, at most one request is answered with a     *)
(* success, and every request issued after the vault exists is answered    *)
(* 500 with the underlying diagnostic.                                     *)
(***************************************************************************)
C6_VaultInitializedOnce ==
    /\ chain.inits <= 1
    /\ initOk <= chain.inits
    /\ \A s \in Busy("init") :
         handlers[s].vaultAtIssue /\ handlers[s].settled => ~handlers[s].result.ok
    /\ done.kind = "init" /\ done.vaultAtIssue =>
         /\ done.resp.status = 500
         /\ ~done.resp.success
         /\ done.responses = 1
         /\ done.resp.error # ""
         /\ done.subs = 1 =>
              /\ done.resp.error = done.result.message
              /\ done.resp.details = ClientLogs(done.result)

C6_Witness ==
    /\ initOk = 1
    /\ done.kind = "init"
    /\ done.vaultAtIssue
    /\ done.result = AlreadyInUse
    /\ done.resp.status = 500

(***************************************************************************)
(* C7: the process listens, and so answers a request, only after the       *)
(* fee-wallet secret, the program identifier and the interface definition  *)
(* have been loaded and parsed; if one of them is absent or malformed the  *)
(* process exits during start-up without listening or serving a request.   *)
(* (Malformed, for the interface definition: a file that does not parse.)  *)
(***************************************************************************)
ConfigOk ==
    /\ env.FEE_WALLET_SECRET = "[keypair bytes]"
    /\ env.ANCHOR_PROGRAM_ID = "ProgramId11111111111111111111111"
    /\ env.idlFile \in {"{}", "{idl}"}

Served == nreq > 0 \/ done # NoExchange \/ \E s \in Slots : handlers[s] # Idle

C7_ListenAfterStartup ==
    /\ pc \in {"listen", "serving"} =>
         /\ ConfigOk
         /\ feeWallet = FeeWalletKey
         /\ programId = env.ANCHOR_PROGRAM_ID
         /\ idl = env.idlFile
    /\ Served => pc = "serving"
    /\ ~ConfigOk =>
         pc \in {"checkSecret", "checkProgramId", "loadIdl", "initSolana", "exited"}

C7_Witness ==
    /\ pc = "serving"
    /\ done.kind = "tip"
    /\ done.resp.status = 200

(***************************************************************************)
(* C8: address derivation depends only on its seeds and the program        *)
(* identifier: the fee-vault address returned by POST /initialize-fee-vault*)
(* is the fee-vault account of every POST /tip, and the same (wallet, user *)
(* id) pair has the same profile address in every request; the program     *)
(* identifier the addresses are derived from is the one loaded at start-up.*)
(***************************************************************************)
\* the transactions in sight: those awaiting settlement and the one of the
\* exchange completed last
Transactions ==
    {handlers[s].tx : s \in {s \in Slots : handlers[s] # Idle}}
    \cup (IF done.kind # "none" /\ done.subs > 0 THEN {done.tx} ELSE {})

\* (wallet key, user id, profile address) as used by the tip transactions
Profiles ==
    UNION {{<<t.accounts.viewer, t.viewerUserId, t.accounts.viewerProfile>>,
            <<t.accounts.creator, t.creatorUserId, t.accounts.creatorProfile>>} :
           t \in {t \in Transactions : t.ix = "tipCreator"}}

C8_DerivationDeterministic ==
    /\ \A t, u \in Transactions : t.accounts.feeVault = u.accounts.feeVault
    /\ \A t \in Transactions :
         /\ t.accounts.feeVault.program = env.ANCHOR_PROGRAM_ID
         /\ done.kind = "init" /\ done.resp.success =>
              done.resp.feeVault = t.accounts.feeVault
    /\ \A p, q \in Profiles : p[1] = q[1] /\ p[2] = q[2] => p[3] = q[3]
    /\ \A p \in Profiles : p[3].program = env.ANCHOR_PROGRAM_ID

C8_Witness ==
    /\ done.kind = "init"
    /\ done.resp.success
    /\ \E s \in Busy("tip") : handlers[s].tx.accounts.feeVault = done.resp.feeVault

(***************************************************************************)
(* C9: every amount passed to the tip instruction is a positive integer: a *)
(* request whose amount is not a positive integer (a positive fraction,    *)
(* say) never reaches submission.                                          *)
(***************************************************************************)
PositiveInteger(a) == PositiveNumber(a) /\ ~Half(NumOf(a))
BNPositive(bn) == ~bn.negative /\ \E i \in 1..Len(bn.words) : bn.words[i] > 0

C9_AmountPositiveInteger ==
    \A t \in SubmittedTips :
        /\ PositiveInteger(t.body.amount)
        /\ BNPositive(t.tx.amount)

(***************************************************************************)
(* C10: a POST /tip failure caused by the content of the request body      *)
(* (missing fields, bad amount, malformed wallets, malformed identifiers   *)
(* such as non-string or over-long user ids) is answered 400 and leaves    *)
(* the process running; a 500 is sent for a /tip request only after a      *)
(* submission to the chain client was attempted and failed.                *)
(***************************************************************************)
MalformedId(v) == TypeOf(v) # "undefined" /\ (TypeOf(v) # "string" \/ Len(StrOf(v)) > 32)
BodyRejectable(body) ==
    \/ FieldMissing(body)
    \/ BadAmount(body.amount)
    \/ ~(WellFormedWallet(body.viewerWallet) /\ WellFormedWallet(body.creatorWallet))
    \/ MalformedId(body.viewerUserId)
    \/ MalformedId(body.creatorUserId)

C10Statement ==
    /\ pc = "serving"
    /\ BodyRejectable(done.body) => done.resp.status = 400
    /\ done.resp.status = 500 => done.subs = 1 /\ ~done.result.ok

\* C10 in full.  It fails also where creating the program fails (see C3).
C10_BodyFailuresAre400 == done.kind = "tip" => C10Statement

(***************************************************************************)
(* C10, in a process whose interface definition is well-formed, so that    *)
(* creating the program cannot fail and only the request body decides:     *)
(* a failure caused by the body is answered 400, and a 500 is sent only    *)
(* after a submission was attempted and failed.                            *)
(***************************************************************************)
C10_BodyFailuresAre400_GoodIdl ==
    done.kind = "tip" /\ idl = "{idl}" => C10Statement

(***************************************************************************)
(* C11: the gateway does not deduplicate tip requests and imposes no order *)
(* on them.  Of two valid POST /tip requests, identical bodies (a retry)   *)
(* included, and in any interleaving, each is submitted as a transaction   *)
(* of its own and answered with the outcome of its own submission; the     *)
(* handling of one neither suppresses the other, nor waits on it, nor      *)
(* changes its result.  "Valid" is read as: a request that the server      *)
(* submits when it is the only one, i.e. the requests of SpecConcurrent on *)
(* a server whose program can be created.                                  *)
(***************************************************************************)
\* slot s takes a tip request in this step and awaits its submission
TipTaken(s) == handlers[s] = Idle /\ handlers'[s] # Idle /\ handlers'[s].kind = "tip"
\* a tip request is received in this step
TipReceived ==
    /\ nreq' = nreq + 1
    /\ \/ \E s \in Slots : TipTaken(s)
       \/ handlers' = handlers /\ done'.kind = "tip"
\* the submission that the handler in slot s awaits settles in this step
TipSettled(s) ==
    handlers[s].kind = "tip" /\ ~handlers[s].settled /\ handlers'[s] # handlers[s]
\* the handler in slot s sends its response in this step
TipAnswered(s) ==
    handlers[s].kind = "tip" /\ handlers[s].settled /\ handlers'[s] # handlers[s]
OthersUntouched(s) == \A t \in Slots \ {s} : handlers'[t] = handlers[t]

\* every request received is submitted, whatever else is in flight
C11OwnSubmission ==
    TipReceived /\ idl = "{idl}" =>
        \E s \in Slots :
            /\ TipTaken(s)
            /\ ~handlers'[s].settled
            /\ handlers'[s].tx.ix = "tipCreator"
            /\ handlers'[s].tx.viewerUserId = StrOf(handlers'[s].body.viewerUserId)
            /\ handlers'[s].tx.creatorUserId = StrOf(handlers'[s].body.creatorUserId)
            /\ OthersUntouched(s)
            /\ done' = done
            /\ chain' = chain

\* a settlement reaches the handler that made the submission and no other
C11OwnResult ==
    \A s \in Slots : TipSettled(s) =>
        /\ handlers'[s] = [handlers[s] EXCEPT !.settled = TRUE,
                                              !.result = handlers'[s].result]
        /\ OthersUntouched(s)
        /\ done' = done

\* each handler sends one response, for its own request and its own result
C11OwnResponse ==
    \A s \in Slots : TipAnswered(s) =>
        /\ handlers'[s] = Idle
        /\ OthersUntouched(s)
        /\ chain' = chain
        /\ done'.kind = "tip"
        /\ done'.body = handlers[s].body
        /\ done'.tx = handlers[s].tx
        /\ done'.result = handlers[s].result
        /\ done'.responses = 1
        /\ done'.subs = 1
        /\ (done'.resp.status = 200 <=> handlers[s].result.ok)
        /\ handlers[s].result.ok => done'.resp.txSig = handlers[s].result.txSig
        /\ ~handlers[s].result.ok => done'.resp.error = handlers[s].result.message

\* the signatures of the successful submissions known to the gateway
SuccessfulTips ==
    {<<s, handlers[s].result.txSig>> :
        s \in {t \in Busy("tip") : handlers[t].settled /\ handlers[t].result.ok}}
    \cup (IF done.kind = "tip" /\ done.subs = 1 /\ done.result.ok
            THEN {<<0, done.result.txSig>>} ELSE {})
\* two requests never share a transaction
C11SeparateTransactions ==
    \A x, y \in SuccessfulTips : x[1] # y[1] => x[2] # y[2]

\* a handler never waits on another: its submission can settle, and once it
\* has settled the response can be sent, whatever the other handlers do
C11NoWaiting ==
    \A s \in Busy("tip") :
        IF handlers[s].settled THEN ENABLED TipResume(s)
        ELSE \A o \in TipOutcomes : ENABLED SettleTip(s, o)

C11_NoDedupNoOrdering ==
    /\ [](C11SeparateTransactions /\ C11NoWaiting)
    /\ [][C11OwnSubmission /\ C11OwnResult /\ C11OwnResponse]_vars

\* a retry in flight: the response to one of two identical requests is a
\* success while the other, submitted on its own, has failed
C11_Witness ==
    /\ done.kind = "tip"
    /\ done.resp.status = 200
    /\ \E s \in Busy("tip") :
         /\ handlers[s].body = done.body
         /\ handlers[s].tx = done.tx
         /\ handlers[s].settled
         /\ ~handlers[s].result.ok

====
